---- MODULE Spec2Model ----
(***************************************************************************)
(* A model of backend/main.py: a FastAPI application with three GET        *)
(* routes that relay to two upstream services, behind a CORS middleware.   *)
(*                                                                         *)
(* A text (a URL, a query string, a parameter) is a sequence of            *)
(* characters, each a string.  A response body is a sequence of JSON       *)
(* lexemes.                                                                *)
(***************************************************************************)
EXTENDS Integers, Sequences, FiniteSets, TLC

VARIABLES req, cors

vars == <<req, cors>>

-----------------------------------------------------------------------------
(* Bounds *)

\* number of request slots the server holds at once
MaxReq == 2
\* threads of the pool that runs the synchronous handler
PoolSize == 1
\* longest tz text, over Alphabet, a caller sends
MaxTzLen == 1
\* longest q text, over Alphabet, a caller sends
MaxQLen == 2

-----------------------------------------------------------------------------
(* Text helpers *)

\* first position >= i of character c in s, 0 when there is none
IndexOf(s, c, i) ==
    LET at == {k \in i..Len(s) : s[k] = c}
    IN  IF at = {} THEN 0 ELSE CHOOSE k \in at : \A j \in at : k <= j

RECURSIVE SplitOn(_, _)
\* s.split(c)
SplitOn(s, c) ==
    LET k == IndexOf(s, c, 1)
    IN  IF k = 0 THEN <<s>>
        ELSE <<SubSeq(s, 1, k - 1)>> \o SplitOn(SubSeq(s, k + 1, Len(s)), c)

RECURSIVE Join(_, _)
\* c.join(parts), parts a sequence of texts, c a text
Join(parts, c) ==
    IF parts = <<>> THEN <<>>
    ELSE IF Len(parts) = 1 THEN parts[1]
    ELSE parts[1] \o c \o Join(Tail(parts), c)

RECURSIVE Flatten(_)
\* the texts of a sequence, one after the other; the sequence is bound to p
\* so that it is computed once
Flatten(parts) ==
    CHOOSE text \in
        { IF Len(p) = 0 THEN <<>>
          ELSE IF Len(p) = 1 THEN p[1]
          ELSE Flatten(SubSeq(p, 1, Len(p) \div 2))
                  \o Flatten(SubSeq(p, (Len(p) \div 2) + 1, Len(p)))
          : p \in {parts} } : TRUE

RECURSIVE SeqsUpTo(_, _)
\* every text over alphabet S of length at most n
SeqsUpTo(S, n) ==
    IF n = 0 THEN {<<>>}
    ELSE LET shorter == SeqsUpTo(S, n - 1)
         IN  shorter \cup {Append(s, c) : s \in shorter, c \in S}

\* the ASCII characters, Ascii[n + 1] the character of code n; a control
\* character and the grave accent are written as a name in angle brackets
Ascii ==
    <<"<NUL>", "<SOH>", "<STX>", "<ETX>", "<EOT>", "<ENQ>", "<ACK>",
      "<BEL>", "<BS>", "<TAB>", "<LF>", "<VT>", "<FF>", "<CR>", "<SO>",
      "<SI>", "<DLE>", "<DC1>", "<DC2>", "<DC3>", "<DC4>", "<NAK>",
      "<SYN>", "<ETB>", "<CAN>", "<EM>", "<SUB>", "<ESC>", "<FS>", "<GS>",
      "<RS>", "<US>", " ", "!", "\"", "#", "$", "%", "&", "'", "(", ")",
      "*", "+", ",", "-", ".", "/", "0", "1", "2", "3", "4", "5", "6", "7",
      "8", "9", ":", ";", "<", "=", ">", "?", "@", "A", "B", "C", "D", "E",
      "F", "G", "H", "I", "J", "K", "L", "M", "N", "O", "P", "Q", "R", "S",
      "T", "U", "V", "W", "X", "Y", "Z", "[", "\\", "]", "^", "_",
      "<GRAVE>", "a", "b", "c", "d", "e", "f", "g", "h", "i", "j", "k",
      "l", "m", "n", "o", "p", "q", "r", "s", "t", "u", "v", "w", "x", "y",
      "z", "{", "|", "}", "~", "<DEL>">>

HexChars ==
    <<"0", "1", "2", "3", "4", "5", "6", "7", "8", "9", "A", "B", "C", "D", "E", "F">>

LowerHexChars ==
    <<"0", "1", "2", "3", "4", "5", "6", "7", "8", "9", "a", "b", "c", "d", "e", "f">>

IsHex(c) == \E i \in 1..16 : HexChars[i] = c \/ LowerHexChars[i] = c

HexVal(c) == (CHOOSE i \in 1..16 : HexChars[i] = c \/ LowerHexChars[i] = c) - 1

\* the largest code point
MaxCodePoint == 1114111

\* the character of code point n; one above ASCII is written by its number,
\* as <U+00E9>
Chr(n) ==
    IF n < 128 THEN Ascii[n + 1]
    ELSE "<U+"
         \o (IF n >= 1048576 THEN HexChars[(n \div 1048576) + 1] ELSE "")
         \o (IF n >= 65536 THEN HexChars[((n \div 65536) % 16) + 1] ELSE "")
         \o HexChars[((n \div 4096) % 16) + 1]
         \o HexChars[((n \div 256) % 16) + 1]
         \o HexChars[((n \div 16) % 16) + 1]
         \o HexChars[(n % 16) + 1]
         \o ">"

\* what a decoder puts for bytes that are no character
Replacement == Chr(65533)

\* the code of each ASCII character
AsciiCode == [c \in {Ascii[i] : i \in 1..128} |-> (CHOOSE i \in 1..128 : Ascii[i] = c) - 1]

Ord(c) ==
    IF c \in DOMAIN AsciiCode THEN AsciiCode[c]
    ELSE CHOOSE n \in 128..MaxCodePoint : Chr(n) = c

\* the characters a URL must not hold: chr(0)..chr(31) and chr(127)
Controls == {Ascii[n + 1] : n \in 0..31} \cup {Ascii[128]}

DigitChars == <<"0", "1", "2", "3", "4", "5", "6", "7", "8", "9">>

IsDigit(c) == \E i \in 1..10 : DigitChars[i] = c

DigitVal(c) == (CHOOSE i \in 1..10 : DigitChars[i] = c) - 1

LowerLetters ==
    <<"a", "b", "c", "d", "e", "f", "g", "h", "i", "j", "k", "l", "m",
      "n", "o", "p", "q", "r", "s", "t", "u", "v", "w", "x", "y", "z">>

UpperLetters ==
    <<"A", "B", "C", "D", "E", "F", "G", "H", "I", "J", "K", "L", "M",
      "N", "O", "P", "Q", "R", "S", "T", "U", "V", "W", "X", "Y", "Z">>

\* c.lower()
Lower(c) ==
    IF \E i \in 1..26 : UpperLetters[i] = c
    THEN LowerLetters[CHOOSE i \in 1..26 : UpperLetters[i] = c]
    ELSE c

Letters == {LowerLetters[i] : i \in 1..26} \cup {UpperLetters[i] : i \in 1..26}

\* the characters urlencode leaves as they are
Unreserved == Letters \cup {DigitChars[i] : i \in 1..10} \cup {"_", ".", "-", "~"}

Abs(x) == IF x < 0 THEN -x ELSE x

RECURSIVE Digits(_)
\* the decimal digits of a natural number
Digits(n) ==
    IF n < 10 THEN <<DigitChars[n + 1]>>
    ELSE Digits(n \div 10) \o <<DigitChars[(n % 10) + 1]>>

RECURSIVE NatOf(_)
\* the natural number a text of digits stands for
NatOf(ds) ==
    IF ds = <<>> THEN 0
    ELSE 10 * NatOf(SubSeq(ds, 1, Len(ds) - 1)) + DigitVal(ds[Len(ds)])

\* n times "0"
Zeros(n) == [i \in 1..n |-> "0"]

-----------------------------------------------------------------------------
(* Floats: the float a query parameter is validated to, and str(x) *)

\* A float is nan, an infinity, or a sign with the digits d1..dn of its
\* shortest decimal form and a decimal exponent: 0.d1..dn * 10^exp.  The
\* digits have no zero at either end; zero has no digits.
Nan == [kind |-> "nan", neg |-> FALSE, digits |-> <<>>, exp |-> 0]

Inf(neg) == [kind |-> "inf", neg |-> neg, digits |-> <<>>, exp |-> 0]

Finite(neg, digits, exp) ==
    [kind |-> "num", neg |-> neg, digits |-> digits, exp |-> exp]

Zero(neg) == Finite(neg, <<>>, 0)

\* the element of a set of one element
TheOne(S) == CHOOSE x \in S : TRUE

-----------------------------------------------------------------------------
(* Natural numbers of any size: the sequence of their decimal digits, each a
   number, the first not 0; zero has no digits *)

RECURSIVE Dec(_)
\* the digits of a number of the machine
Dec(n) == IF n = 0 THEN <<>> ELSE Dec(n \div 10) \o <<n % 10>>

\* n times 0
Nulls(n) == [i \in 1..n |-> 0]

\* a without the zeros at its start
Lead(a) ==
    SubSeq(a, CHOOSE i \in 1..(Len(a) + 1) :
                 /\ i = Len(a) + 1 \/ a[i] # 0
                 /\ \A j \in 1..(i - 1) : a[j] = 0,
           Len(a))

\* a with zeros put at its start, to the length n
Pad(a, n) == Nulls(n - Len(a)) \o a

RECURSIVE Carry(_, _)
\* columns of numbers, the last the units, brought to digits, cin added to
\* the units: the digits, one a column, and what is carried out of the first
Carry(cols, cin) ==
    IF Len(cols) = 1
    THEN [d |-> <<(cols[1] + cin) % 10>>, c |-> (cols[1] + cin) \div 10]
    ELSE TheOne({TheOne({[d |-> hi.d \o lo.d, c |-> hi.c] :
                            hi \in {Carry(h, lo.c)}}) :
                    h  \in {SubSeq(cols, 1, Len(cols) \div 2)},
                    lo \in {TheOne({Carry(l, cin) :
                              l \in {SubSeq(cols, Len(cols) \div 2 + 1, Len(cols))}})}})

\* the number the columns stand for; what is carried out is not below 0
Number(cols) ==
    IF cols = <<>> THEN <<>>
    ELSE TheOne({Lead(a) :
                   a \in {TheOne({Dec(r.c) \o r.d : r \in {Carry(cols, 0)}})}})

\* a * k, for k below 2^27
MulSmall(a, k) == TheOne({Number(cols) : cols \in {[i \in 1..Len(a) |-> a[i] * k]}})

\* a + b
Add(a, b) ==
    TheOne({TheOne({Number(cols) : cols \in {[i \in 1..Len(x) |-> x[i] + y[i]]}}) :
               x \in {Pad(a, IF Len(a) > Len(b) THEN Len(a) ELSE Len(b))},
               y \in {Pad(b, IF Len(a) > Len(b) THEN Len(a) ELSE Len(b))}})

\* a - b, for a >= b
Sub(a, b) ==
    TheOne({TheOne({Number(cols) : cols \in {[i \in 1..Len(a) |-> a[i] - y[i]]}}) :
               y \in {Pad(b, Len(a))}})

\* a < b
Less(a, b) ==
    \/ Len(a) < Len(b)
    \/ /\ Len(a) = Len(b)
       /\ \E i \in 1..Len(a) : a[i] < b[i] /\ \A j \in 1..(i - 1) : a[j] = b[j]

RECURSIVE TimesPow(_, _, _, _)
\* a * base^n, base^step at a time: the first half of the steps, then the
\* others
TimesPow(a, base, step, n) ==
    IF n = 0 THEN a
    ELSE IF n <= step THEN MulSmall(a, base ^ n)
    ELSE TheOne({TimesPow(b, base, step, n - h) :
                    b \in {TheOne({TimesPow(a, base, step, h) :
                                     h \in {step * (((n \div step) + 1) \div 2)}})},
                    h \in {step * (((n \div step) + 1) \div 2)}})

\* a * 2^n
TimesPow2(a, n) == TimesPow(a, 2, 27, n)

\* a * 5^n
TimesPow5(a, n) == TimesPow(a, 5, 11, n)

-----------------------------------------------------------------------------
(* The double nearest to a decimal: m * 2^e with m below 2^53 *)

Two52 == <<4, 5, 0, 3, 5, 9, 9, 6, 2, 7, 3, 7, 0, 4, 9, 6>>

Two53 == <<9, 0, 0, 7, 1, 9, 9, 2, 5, 4, 7, 4, 0, 9, 9, 2>>

\* the least and the greatest exponent e of a double m * 2^e
MinExp == -1074

MaxExp == 971

\* of the number w * 10^s: what is before the point
IntPart(w, s) ==
    IF s >= 0 THEN (IF w = <<>> THEN <<>> ELSE w \o Nulls(s))
    ELSE IF -s >= Len(w) THEN <<>>
    ELSE SubSeq(w, 1, Len(w) + s)

\* of the number w * 10^s: the digits after the point
FracPart(w, s) ==
    IF s >= 0 THEN <<>>
    ELSE IF -s >= Len(w) THEN Nulls(-s - Len(w)) \o w
    ELSE SubSeq(w, Len(w) + s + 1, Len(w))

\* round half to even: the digits after the point are above a half, or are a
\* half and the digits before it are odd
RoundsUp(int, frac) ==
    /\ frac # <<>>
    /\ \/ frac[1] > 5
       \/ /\ frac[1] = 5
          /\ \/ \E i \in 2..Len(frac) : frac[i] # 0
             \/ int # <<>> /\ int[Len(int)] % 2 = 1

\* the double m * 2^e, where m is not above 2^53: zero, an infinity when e
\* is beyond the greatest, m * 2^e otherwise
Binary(m, e) ==
    IF m = <<>> THEN [kind |-> "zero", m |-> <<>>, e |-> 0]
    ELSE IF m = Two53
    THEN (IF e + 1 > MaxExp THEN [kind |-> "inf", m |-> <<>>, e |-> 0]
          ELSE [kind |-> "num", m |-> Two52, e |-> e + 1])
    ELSE IF e > MaxExp THEN [kind |-> "inf", m |-> <<>>, e |-> 0]
    ELSE [kind |-> "num", m |-> m, e |-> e]

\* w * 10^s * 2^e rounded to a double, where w * 10^s is below 2^53
Round(w, s, e) ==
    TheOne({TheOne({Binary(m, e) :
                      m \in {IF RoundsUp(int, FracPart(w, s)) THEN Add(int, <<1>>)
                             ELSE int}}) :
               int \in {IntPart(w, s)}})

RECURSIVE Settle(_, _, _)
\* w * 10^s * 2^e rounded to a double: w * 10^s is halved, and e raised,
\* until it is below 2^53
Settle(w, s, e) ==
    IF Less(IntPart(w, s), Two53) THEN Round(w, s, e)
    ELSE TheOne({Settle(half, s - 1, e + 1) : half \in {MulSmall(w, 5)}})

\* the double nearest to d * 10^q, for d above zero.  The exponent is first
\* taken too low by at most five: 33219 / 10000 is just below the logarithm
\* of 10 to the base 2.
Nearest(d, q) ==
    LET x  == Len(d) + q
        e0 == (((x - 1) * 33219) \div 10000) - 53
        e  == IF e0 < MinExp THEN MinExp ELSE e0
    IN  IF x > 310 THEN [kind |-> "inf", m |-> <<>>, e |-> 0]
        ELSE IF x < -330 THEN [kind |-> "zero", m |-> <<>>, e |-> 0]
        ELSE IF e <= 0
        THEN TheOne({Settle(w, q, e) : w \in {TimesPow2(d, -e)}})
        ELSE TheOne({Settle(w, q - e, e) : w \in {TimesPow5(d, e)}})

-----------------------------------------------------------------------------
(* The shortest decimal that is read back as a given double *)

\* the first position at which a and b, of one length, differ; one beyond
\* the length when they do not
FirstDiff(a, b) ==
    CHOOSE i \in 1..(Len(a) + 1) :
        /\ i = Len(a) + 1 \/ a[i] # b[i]
        /\ \A j \in 1..(i - 1) : a[j] = b[j]

\* the last position of a that is not 0; 0 when there is none
LastDigit(a) ==
    CHOOSE i \in 0..Len(a) :
        /\ i = 0 \/ a[i] # 0
        /\ \A j \in (i + 1)..Len(a) : a[j] = 0

\* Of w, with l below it and h above it, all of one length: where w first
\* differs from each, the last digit of each that is not 0, whether h has
\* one more than w where they first differ, and the first position after
\* that where w has no 9 or h no 0.
Marks(l, w, h) ==
    TheOne({[dl   |-> FirstDiff(w, l),
             dh   |-> dh,
             zl   |-> LastDigit(l),
             zh   |-> LastDigit(h),
             zw   |-> LastDigit(w),
             step |-> dh <= Len(h) /\ h[dh] = w[dh] + 1,
             nine |-> IF dh > Len(h) THEN Len(h) + 1
                      ELSE CHOOSE i \in (dh + 1)..(Len(h) + 1) :
                              /\ i = Len(h) + 1 \/ ~(w[i] = 9 /\ h[i] = 0)
                              /\ \A j \in (dh + 1)..(i - 1) : w[j] = 9 /\ h[j] = 0] :
               dh \in {FirstDiff(w, h)}})

\* w cut after p digits is not below l: it differs from l before p, or is l
Down(k, p, closed) == k.dl <= p \/ (closed /\ k.zl <= p)

\* w cut after p digits and raised by one is h
IsHi(k, p) == k.zh <= p /\ k.step /\ p < k.nine

\* w cut after p digits and raised by one is not above h
Up(k, p, closed) == k.dh <= p /\ (closed \/ ~IsHi(k, p))

\* the fewest digits of w to keep
Fewest(k, n, closed) ==
    CHOOSE p \in 0..n :
        /\ Down(k, p, closed) \/ Up(k, p, closed)
        /\ \A j \in 0..(p - 1) : ~(Down(k, j, closed) \/ Up(k, j, closed))

\* w cut after p digits is raised: it must be, or may be and is then nearer
\* to w, or as near and even
Raised(k, w, p, closed) ==
    IF ~Up(k, p, closed) THEN FALSE
    ELSE IF ~Down(k, p, closed) THEN TRUE
    ELSE IF p = Len(w) THEN FALSE
    ELSE IF w[p + 1] # 5 THEN w[p + 1] > 5
    ELSE IF k.zw > p + 1 THEN TRUE
    ELSE w[p] % 2 = 1

\* the digits kept, counted in units of 10^sc, as 0.digits * 10^exp
Cut(kept, dropped, sc) ==
    [digits |-> SubSeq(kept, 1, LastDigit(kept)),
     exp    |-> Len(kept) + dropped + sc]

\* The decimal, of the fewest digits, between lo and hi that is nearest to
\* v, all three counted in units of 10^sc and lo < v < hi; lo and hi are
\* themselves taken when closed.
Between(lo, v, hi, closed, sc) ==
    TheOne({TheOne({TheOne({TheOne({Cut(kept, Len(hi) - p, sc) :
                kept \in {IF Raised(k, w, p, closed)
                          THEN Add(Lead(SubSeq(w, 1, p)), <<1>>)
                          ELSE Lead(SubSeq(w, 1, p))}}) :
              p \in {Fewest(k, Len(hi), closed)}}) :
            k \in {Marks(l, w, hi)}}) :
          l \in {Pad(lo, Len(hi))}, w \in {Pad(v, Len(hi))}})

\* the shortest decimal that is read back as the double m * 2^e: the one
\* nearest to it among the decimals nearer to it than to the doubles next
\* to it, in units of u = 2^(e - 2).  The double below a power of two is
\* half as far as the one above.
Shortest(m, e) ==
    LET sc     == IF e >= 2 THEN 0 ELSE e - 2
        even   == m[Len(m)] % 2 = 0
        narrow == m = Two52 /\ e > MinExp
    IN  TheOne({TheOne({TheOne({Between(lo, v, hi, even, sc) :
                                  lo \in {Sub(v, IF narrow THEN u ELSE u2)},
                                  hi \in {Add(v, u2)}}) :
                          u2 \in {MulSmall(u, 2)}}) :
                   u \in {IF e >= 2 THEN TimesPow2(<<1>>, e - 2)
                          ELSE TimesPow5(<<1>>, 2 - e)},
                   v \in {IF e >= 2 THEN TimesPow2(m, e)
                          ELSE TheOne({MulSmall(x, 4) : x \in {TimesPow5(m, 2 - e)}})}})

-----------------------------------------------------------------------------
(* A text read as a float *)

\* the characters str.trim() takes from both ends of a text: the white space
\* of Unicode
Whitespace ==
    {" ", "<TAB>", "<LF>", "<VT>", "<FF>", "<CR>"}
    \cup {Chr(n) : n \in {133, 160, 5760, 8232, 8233, 8239, 8287, 12288}
                         \cup (8192..8202)}

\* text.trim()
Trim(text) ==
    LET at == {i \in 1..Len(text) : text[i] \notin Whitespace}
    IN  IF at = {} THEN <<>>
        ELSE SubSeq(text, CHOOSE i \in at : \A j \in at : i <= j,
                          CHOOSE i \in at : \A j \in at : i >= j)

IsDigits(s) == \A i \in 1..Len(s) : IsDigit(s[i])

\* s without the zeros at its start
DropLeadingZeros(s) ==
    LET at == {i \in 1..Len(s) : s[i] # "0"}
    IN  IF at = {} THEN <<>>
        ELSE SubSeq(s, CHOOSE i \in at : \A j \in at : i <= j, Len(s))

\* s without the zeros at its end
DropTrailingZeros(s) ==
    LET at == {i \in 1..Len(s) : s[i] # "0"}
    IN  IF at = {} THEN <<>>
        ELSE SubSeq(s, 1, CHOOSE i \in at : \A j \in at : i >= j)

\* the exponent a text of digits stands for; one of more than six digits is
\* beyond every float
ExponentOf(neg, ds) ==
    LET d == DropLeadingZeros(ds)
        e == IF Len(d) > 6 THEN 1000000 ELSE NatOf(d)
    IN  IF neg THEN -e ELSE e

\* a text without the sign at its start
Unsigned(t) == IF t # <<>> /\ t[1] \in {"+", "-"} THEN Tail(t) ELSE t

IsNegative(t) == t # <<>> /\ t[1] = "-"

LowerAll(s) == [i \in 1..Len(s) |-> Lower(s[i])]

\* s cut at its first c: what is before it, what is after it
SplitAt(s, c) ==
    LET k == IndexOf(s, c, 1)
    IN  IF k = 0 THEN [found |-> FALSE, head |-> s, tail |-> <<>>]
        ELSE [found |-> TRUE, head |-> SubSeq(s, 1, k - 1),
              tail |-> SubSeq(s, k + 1, Len(s))]

\* the decimal 0.all * 10^point as it is written, not rounded: its digits
\* have no zero at either end
Decimal(neg, all, point) ==
    TheOne({IF d = <<>> THEN Zero(neg)
            ELSE Finite(neg, DropTrailingZeros(d), point - (Len(all) - Len(d))) :
               d \in {DropLeadingZeros(all)}})

\* the digits before and after the point, and the text after the "e":
\* Digit* "." Digit* with a digit, then "e" Sign? Digit+
ParseNumber(neg, whole, frac, hasexp, ex) ==
    IF /\ Len(whole) + Len(frac) > 0
       /\ IsDigits(whole)
       /\ IsDigits(frac)
       /\ hasexp => (Unsigned(ex) # <<>> /\ IsDigits(Unsigned(ex)))
    THEN [ok  |-> TRUE,
          val |-> Decimal(neg, whole \o frac,
                          Len(whole) + (IF hasexp
                                        THEN ExponentOf(IsNegative(ex), Unsigned(ex))
                                        ELSE 0))]
    ELSE [ok |-> FALSE, val |-> Nan]

\* a text in lower case, without its sign
ParseUnsigned(neg, s) ==
    IF s \in {<<"i", "n", "f">>, <<"i", "n", "f", "i", "n", "i", "t", "y">>}
    THEN [ok |-> TRUE, val |-> Inf(neg)]
    ELSE IF s = <<"n", "a", "n">> THEN [ok |-> TRUE, val |-> Nan]
    ELSE TheOne({TheOne({ParseNumber(neg, m.head, m.tail, e.found, e.tail) :
                            m \in {SplitAt(e.head, ".")}}) :
                    e \in {SplitAt(s, "e")}})

\* a text as a decimal, as it is written: whether it is one, and which
ParseDecimal(s) ==
    TheOne({ParseUnsigned(IsNegative(s), t) : t \in {LowerAll(Unsigned(s))}})

\* the digits of a text as numbers
DigitValues(ds) == [i \in 1..Len(ds) |-> AsciiCode[ds[i]] - 48]

\* the digits of numbers as a text
DigitText(a) == [i \in 1..Len(a) |-> DigitChars[a[i] + 1]]

\* the double nearest to a decimal, as the shortest decimal that is read
\* back as it
ToDouble(x) ==
    IF x.kind # "num" \/ x.digits = <<>> THEN x
    ELSE TheOne({IF b.kind = "inf" THEN Inf(x.neg)
                 ELSE IF b.kind = "zero" THEN Zero(x.neg)
                 ELSE TheOne({Finite(x.neg, DigitText(s.digits), s.exp) :
                                 s \in {Shortest(b.m, b.e)}}) :
                    b \in {TheOne({Nearest(d, x.exp - Len(d)) :
                                     d \in {DigitValues(x.digits)}})}})

\* str.parse::<f64>(): the text as a double
FromStr(s) ==
    TheOne({[ok |-> p.ok, val |-> IF p.ok THEN ToDouble(p.val) ELSE Nan] :
               p \in {ParseDecimal(s)}})

\* the text has underscores that are taken out of it: it has one, none at
\* either end and no two in a row
HasUnderscores(text) ==
    /\ \E i \in 1..Len(text) : text[i] = "_"
    /\ text[1] # "_"
    /\ text[Len(text)] # "_"
    /\ \A i \in 1..(Len(text) - 1) : ~(text[i] = "_" /\ text[i + 1] = "_")

\* The float a query parameter declared float is validated to: whether the
\* text is a float, and which.  The text is read without the white space
\* around it; a text that is not a float so is read without its underscores,
\* with the white space it has.
ParseFloat(text) ==
    TheOne({IF first.ok THEN first
            ELSE IF HasUnderscores(text)
            THEN TheOne({FromStr(s) : s \in {SelectSeq(text, LAMBDA c : c # "_")}})
            ELSE [ok |-> FALSE, val |-> Nan] :
               first \in {TheOne({FromStr(t) : t \in {Trim(text)}})}})

\* str(x): "52.52", "-0.0", "10.0", "1e+16", "1e-05", "inf", "nan"
FormatFloat(x) ==
    LET sign == IF x.neg THEN <<"-">> ELSE <<>>
        ds   == x.digits
        n    == Len(x.digits)
        e    == x.exp - 1
    IN  CASE x.kind = "nan" -> <<"n", "a", "n">>
          [] x.kind = "inf" -> sign \o <<"i", "n", "f">>
          [] x.kind = "num" /\ n = 0 -> sign \o <<"0", ".", "0">>
          [] x.kind = "num" /\ n > 0 /\ -4 < x.exp /\ x.exp <= 16 ->
                IF x.exp <= 0 THEN sign \o <<"0", ".">> \o Zeros(-x.exp) \o ds
                ELSE IF x.exp < n
                THEN sign \o SubSeq(ds, 1, x.exp) \o <<".">> \o SubSeq(ds, x.exp + 1, n)
                ELSE sign \o ds \o Zeros(x.exp - n) \o <<".", "0">>
          [] OTHER ->
                sign \o <<ds[1]>>
                     \o (IF n > 1 THEN <<".">> \o Tail(ds) ELSE <<>>)
                     \o <<"e", IF e < 0 THEN "-" ELSE "+">>
                     \o (IF Abs(e) < 10 THEN <<"0">> ELSE <<>>) \o Digits(Abs(e))

-----------------------------------------------------------------------------
(* URLs and query strings *)

\* "%XX" for the byte n
Escape(n) == <<"%", HexChars[(n \div 16) + 1], HexChars[(n % 16) + 1]>>

\* the bytes of the character of code point n in UTF-8
Utf8Encode(n) ==
    IF n < 128 THEN <<n>>
    ELSE IF n < 2048 THEN <<192 + (n \div 64), 128 + (n % 64)>>
    ELSE IF n < 65536
    THEN <<224 + (n \div 4096), 128 + ((n \div 64) % 64), 128 + (n % 64)>>
    ELSE <<240 + (n \div 262144), 128 + ((n \div 4096) % 64),
           128 + ((n \div 64) % 64), 128 + (n % 64)>>

\* the escapes of the bytes of character c
EscapeChar(c) ==
    LET bytes == Utf8Encode(Ord(c))
    IN  Flatten([i \in 1..Len(bytes) |-> Escape(bytes[i])])

QuoteCharIdentity(c) == <<c>>

\* quote_plus of one character, as urlencode applies it to keys and values
QuoteChar(c) ==
    IF c \in Unreserved THEN <<c>>
    ELSE IF c = " " THEN <<"+">>
    ELSE EscapeChar(c)

Quote(text) == Flatten([i \in 1..Len(text) |-> QuoteChar(text[i])])

\* urlencode(params): params a sequence of <<key text, value text>>
UrlEncode(params) ==
    Join([i \in 1..Len(params) |->
             Quote(params[i][1]) \o <<"=">> \o Quote(params[i][2])], <<"&">>)

\* the URL requests.get(url, params=params) puts on the wire
WithParams(url, params) == url \o <<"?">> \o UrlEncode(params)

\* the characters the async client sends as they are in the query of a URL it
\* is given: the printable ones but the space, the double quote, "#", "<"
\* and ">"
UrlSafe == {Ascii[n + 1] : n \in 33..126} \ {"\"", "#", "<", ">"}

\* the async client's encoding of the query of a URL
ClientQuote(s) ==
    Flatten([i \in 1..Len(s) |->
                IF s[i] \in UrlSafe THEN <<s[i]>> ELSE EscapeChar(s[i])])

\* client.get(url) raises InvalidURL and sends nothing
InvalidUrl(url) == \E i \in 1..Len(url) : url[i] \in Controls

\* the URL client.get(url) puts on the wire: a fragment is not sent, what is
\* before the query is a literal of the source that needs no escape
ClientUrl(url) ==
    LET h    == IndexOf(url, "#", 1)
        sent == IF h = 0 THEN url ELSE SubSeq(url, 1, h - 1)
        k    == IndexOf(sent, "?", 1)
    IN  IF k = 0 THEN sent
        ELSE SubSeq(sent, 1, k) \o ClientQuote(SubSeq(sent, k + 1, Len(sent)))

\* position i of s starts an escape, "%" and two hexadecimal digits
IsEscape(s, i) ==
    s[i] = "%" /\ i + 2 <= Len(s) /\ IsHex(s[i + 1]) /\ IsHex(s[i + 2])

\* position i of s is one of the two digits of an escape
InEscape(s, i) ==
    \/ i > 1 /\ IsEscape(s, i - 1)
    \/ i > 2 /\ IsEscape(s, i - 2)

\* the bytes a key or a value on the wire stands for: "+" is a space, "%XX"
\* the byte XX, anything else itself
UnquoteToBytes(s) ==
    Flatten([i \in 1..Len(s) |->
                IF IsEscape(s, i) THEN <<16 * HexVal(s[i + 1]) + HexVal(s[i + 2])>>
                ELSE IF InEscape(s, i) THEN <<>>
                ELSE IF s[i] = "+" THEN <<32>>
                ELSE Utf8Encode(Ord(s[i]))])

\* b is a byte that continues a character
IsContinuation(b) == 128 <= b /\ b <= 191

\* the number of bytes that follow the first byte b of a character
Following(b) ==
    IF 194 <= b /\ b <= 223 THEN 1
    ELSE IF 224 <= b /\ b <= 239 THEN 2
    ELSE IF 240 <= b /\ b <= 244 THEN 3
    ELSE 0

\* b may be the second byte of a character whose first byte is lead
IsSecond(lead, b) ==
    CASE lead = 224 -> 160 <= b /\ b <= 191
      [] lead = 237 -> 128 <= b /\ b <= 159
      [] lead = 240 -> 144 <= b /\ b <= 191
      [] lead = 244 -> 128 <= b /\ b <= 143
      [] OTHER -> IsContinuation(b)

\* the number of bytes after position j that the decoder reads together
\* with the byte at j
Taken(bs, j) ==
    LET n == Following(bs[j])
    IN  IF n = 0 \/ j + 1 > Len(bs) \/ ~IsSecond(bs[j], bs[j + 1]) THEN 0
        ELSE IF n = 1 \/ j + 2 > Len(bs) \/ ~IsContinuation(bs[j + 2]) THEN 1
        ELSE IF n = 2 \/ j + 3 > Len(bs) \/ ~IsContinuation(bs[j + 3]) THEN 2
        ELSE 3

\* the byte at i is read together with a byte before it
Consumed(bs, i) ==
    \E k \in 1..3 : i - k >= 1 /\ Following(bs[i - k]) > 0 /\ Taken(bs, i - k) >= k

\* the character the decoder gives for the bytes read at position i
DecodeAt(bs, i) ==
    LET b == bs[i]
        n == Following(b)
    IN  IF b < 128 THEN Chr(b)
        ELSE IF n = 0 \/ Taken(bs, i) < n THEN Replacement
        ELSE IF n = 1 THEN Chr((b - 192) * 64 + (bs[i + 1] - 128))
        ELSE IF n = 2
        THEN Chr((b - 224) * 4096 + (bs[i + 1] - 128) * 64 + (bs[i + 2] - 128))
        ELSE Chr((b - 240) * 262144 + (bs[i + 1] - 128) * 4096
                    + (bs[i + 2] - 128) * 64 + (bs[i + 3] - 128))

\* bytes.decode("utf-8", "replace"); the bytes are bound to bs so that they
\* are computed once
Utf8Decode(bytes) ==
    CHOOSE text \in
        { Flatten([i \in 1..Len(bs) |->
                      IF Consumed(bs, i) THEN <<>> ELSE <<DecodeAt(bs, i)>>])
          : bs \in {bytes} } : TRUE

\* the decoding the receiving server applies to a key or a value
Unquote(s) == Utf8Decode(UnquoteToBytes(s))

\* one "key=value" segment of a query string, decoded
ParsePair(seg) ==
    LET k == IndexOf(seg, "=", 1)
    IN  IF k = 0 THEN <<Unquote(seg), <<>>>>
        ELSE <<Unquote(SubSeq(seg, 1, k - 1)), Unquote(SubSeq(seg, k + 1, Len(seg)))>>

\* the part of a URL on the wire before its query, which starts at the
\* first "?"
UrlBase(url) ==
    LET k == IndexOf(url, "?", 1)
    IN  IF k = 0 THEN url ELSE SubSeq(url, 1, k - 1)

\* what the upstream reads from a URL on the wire: the segments of the query
\* are separated by "&"
ParseUrl(url) ==
    LET k     == IndexOf(url, "?", 1)
        query == IF k = 0 THEN <<>> ELSE SubSeq(url, k + 1, Len(url))
        segs  == SelectSeq(SplitOn(query, "&"), LAMBDA g : g # <<>>)
    IN  [base   |-> UrlBase(url),
         params |-> [i \in 1..Len(segs) |-> ParsePair(segs[i])]]

\* the values the upstream reads under key k, in order
ValuesOf(params, k) ==
    LET ps == SelectSeq(params, LAMBDA p : p[1] = k)
    IN  [i \in 1..Len(ps) |-> ps[i][2]]

-----------------------------------------------------------------------------
(* JSON documents.  A body text is a sequence of JSON lexemes. *)

Punct   == {"{", "}", "[", "]", ",", ":"}
NumLex  == {"7"}
JunkLex == {"<html>"}

Num(l)    == [t |-> "num", v |-> <<l>>]
Str(text) == [t |-> "str", v |-> text]
Arr(xs)   == [t |-> "arr", v |-> xs]
Obj(kvs)  == [t |-> "obj", v |-> kvs]
True      == [t |-> "true", v |-> <<>>]

NoParse == [ok |-> FALSE, val |-> True, next |-> 0]

\* d[k] = v on a dict kept as a sequence of <<key, value>> in insertion order
DictSet(kvs, k, v) ==
    IF \E i \in 1..Len(kvs) : kvs[i][1] = k
    THEN [i \in 1..Len(kvs) |-> IF kvs[i][1] = k THEN <<k, v>> ELSE kvs[i]]
    ELSE Append(kvs, <<k, v>>)

IsStrLex(l) == l \notin Punct \cup NumLex \cup JunkLex

RECURSIVE ParseValue(_, _), ParseMembers(_, _, _), ParseElements(_, _, _)

\* one JSON value starting at s[i]
ParseValue(s, i) ==
    IF i > Len(s) THEN NoParse
    ELSE IF s[i] = "{" THEN
        IF i + 1 <= Len(s) /\ s[i + 1] = "}"
        THEN [ok |-> TRUE, val |-> Obj(<<>>), next |-> i + 2]
        ELSE ParseMembers(s, i + 1, <<>>)
    ELSE IF s[i] = "[" THEN
        IF i + 1 <= Len(s) /\ s[i + 1] = "]"
        THEN [ok |-> TRUE, val |-> Arr(<<>>), next |-> i + 2]
        ELSE ParseElements(s, i + 1, <<>>)
    ELSE IF s[i] \in NumLex THEN [ok |-> TRUE, val |-> Num(s[i]), next |-> i + 1]
    ELSE IF IsStrLex(s[i]) THEN [ok |-> TRUE, val |-> Str(<<s[i]>>), next |-> i + 1]
    ELSE NoParse

\* key : value pairs up to the closing brace, the first key at s[i]
\* (a set of one element names a value that is computed once)
ParseMembers(s, i, acc) ==
    IF i + 1 > Len(s) \/ ~IsStrLex(s[i]) \/ s[i + 1] # ":" THEN NoParse
    ELSE CHOOSE res \in
            { IF ~r.ok \/ r.next > Len(s) THEN NoParse
              ELSE CHOOSE out \in
                      { IF s[r.next] = "}"
                        THEN [ok |-> TRUE, val |-> Obj(kvs), next |-> r.next + 1]
                        ELSE IF s[r.next] = ","
                        THEN ParseMembers(s, r.next + 1, kvs)
                        ELSE NoParse
                        : kvs \in {DictSet(acc, s[i], r.val)} } : TRUE
              : r \in {ParseValue(s, i + 2)} } : TRUE

\* values up to the closing bracket, the first value at s[i]
ParseElements(s, i, acc) ==
    CHOOSE res \in
        { IF ~r.ok \/ r.next > Len(s) THEN NoParse
          ELSE CHOOSE out \in
                  { IF s[r.next] = "]"
                    THEN [ok |-> TRUE, val |-> Arr(xs), next |-> r.next + 1]
                    ELSE IF s[r.next] = ","
                    THEN ParseElements(s, r.next + 1, xs)
                    ELSE NoParse
                    : xs \in {Append(acc, r.val)} } : TRUE
          : r \in {ParseValue(s, i)} } : TRUE

\* r.json(): the document, or a decode error
JsonLoads(s) ==
    CHOOSE res \in
        { IF r.ok /\ r.next = Len(s) + 1
          THEN [ok |-> TRUE, val |-> r.val]
          ELSE [ok |-> FALSE, val |-> True]
          : r \in {ParseValue(s, 1)} } : TRUE

\* the keys of a document that is an object, {} for any other document
Keys(d) == IF d.t = "obj" THEN {d.v[i][1] : i \in 1..Len(d.v)} ELSE {}

\* d[k] of an object that has key k
Get(d, k) == d.v[CHOOSE i \in 1..Len(d.v) : d.v[i][1] = k][2]

-----------------------------------------------------------------------------
(* The requests a caller sends and the answers an upstream gives *)

Routes == {"weather", "reverse", "search"}

\* the characters of a caller's text: a letter and the URL metacharacters
Alphabet == {"a", "&", "#", "=", "?"}

\* texts with an escape, a space, a plus sign, a slash, the escapes of a
\* character of two bytes, that character, a tab, a "%" that starts no escape:
\* "%26", "a b", "a+b", "Europe/Berlin", "%C3%A9", chr(233), "a\tb", "100%"
NotableTexts ==
    { <<"%", "2", "6">>,
      <<"a", " ", "b">>,
      <<"a", "+", "b">>,
      <<"E", "u", "r", "o", "p", "e", "/", "B", "e", "r", "l", "i", "n">>,
      <<"%", "C", "3", "%", "A", "9">>,
      <<Chr(233)>>,
      <<"a", "<TAB>", "b">>,
      <<"1", "0", "0", "%">> }

TzTexts == SeqsUpTo(Alphabet, MaxTzLen) \cup NotableTexts
QTexts  == SeqsUpTo(Alphabet, MaxQLen) \cup NotableTexts

\* a query parameter of an incoming request: left out, or given as a text
Absent == [given |-> FALSE, text |-> <<>>]

Given(t) == [given |-> TRUE, text |-> t]

\* the lat and lon of a request.  Floats: "52.52" and "13.405", "-90.0" and
\* "-0.5", "1e1" and " 1.5", "+1.5" and "1_0", "-0" and "0.05", "inf" and
\* "nan"; of more digits than a float holds, "9999999999999999" and
\* "9007199254740993"; beyond the greatest and the least float,
\* "1.797693134862316e308" and "2e-324"; with underscores, "1_.5" and "1e_1",
\* "-_1"; with a no-break space at both ends, chr(160) "1.5" chr(160).  No
\* floats: "x", " 1_0", "1__0", and a parameter that is left out
Coordinates ==
    { <<Given(<<"5", "2", ".", "5", "2">>), Given(<<"1", "3", ".", "4", "0", "5">>)>>,
      <<Given(<<"-", "9", "0", ".", "0">>), Given(<<"-", "0", ".", "5">>)>>,
      <<Given(<<"1", "e", "1">>), Given(<<" ", "1", ".", "5">>)>>,
      <<Given(<<"+", "1", ".", "5">>), Given(<<"1", "_", "0">>)>>,
      <<Given(<<"-", "0">>), Given(<<"0", ".", "0", "5">>)>>,
      <<Given(<<"i", "n", "f">>), Given(<<"n", "a", "n">>)>>,
      <<Given(<<"9", "9", "9", "9", "9", "9", "9", "9", "9", "9", "9", "9",
                "9", "9", "9", "9">>),
        Given(<<"9", "0", "0", "7", "1", "9", "9", "2", "5", "4", "7", "4",
                "0", "9", "9", "3">>)>>,
      <<Given(<<"1", ".", "7", "9", "7", "6", "9", "3", "1", "3", "4", "8",
                "6", "2", "3", "1", "6", "e", "3", "0", "8">>),
        Given(<<"2", "e", "-", "3", "2", "4">>)>>,
      <<Given(<<"1", "_", ".", "5">>), Given(<<"1", "e", "_", "1">>)>>,
      <<Given(<<"-", "_", "1">>), Given(<<Chr(160), "1", ".", "5", Chr(160)>>)>>,
      <<Given(<<"x">>), Given(<<"1", "3", ".", "4", "0", "5">>)>>,
      <<Given(<<" ", "1", "_", "0">>), Given(<<"1", "_", "_", "0">>)>>,
      <<Given(<<"5", "2", ".", "5", "2">>), Absent>>,
      <<Absent, Absent>> }

TzParams  == {Given(t) : t \in TzTexts} \cup {Absent}
QParams   == {Given(t) : t \in QTexts} \cup {Absent}

NoRaw == [lat |-> Absent, lon |-> Absent, tz |-> Absent, q |-> Absent]

\* the query strings of the incoming requests, per route
RawOf(route) ==
    CASE route = "weather" ->
            {[lat |-> c[1], lon |-> c[2], tz |-> z, q |-> Absent] :
                c \in Coordinates, z \in TzParams}
      [] route = "reverse" ->
            {[lat |-> c[1], lon |-> c[2], tz |-> Absent, q |-> Absent] :
                c \in Coordinates}
      [] route = "search" ->
            {[lat |-> Absent, lon |-> Absent, tz |-> Absent, q |-> x] :
                x \in QParams}

\* a few requests per route, for the runs that are about scheduling: one that
\* is served, one with a lon that is no float, one with a q that is a control
\* character
SampleRaw(route) ==
    CASE route = "weather" ->
            {[lat |-> Given(<<"5", "2", ".", "5", "2">>),
              lon |-> Given(<<"1", "3", ".", "4", "0", "5">>),
              tz |-> Absent, q |-> Absent]}
      [] route = "reverse" ->
            {[lat |-> Given(<<"5", "2", ".", "5", "2">>), lon |-> lo,
              tz |-> Absent, q |-> Absent] :
                lo \in {Given(<<"1", "3", ".", "4", "0", "5">>), Given(<<"x">>)}}
      [] route = "search" ->
            {[lat |-> Absent, lon |-> Absent, tz |-> Absent, q |-> x] :
                x \in {Given(<<"a">>), Given(<<"<SOH>">>)}}

\* the status of the response an outbound call returns; 302 is of a redirect
\* that is not followed
Statuses == {200, 201, 302, 404, 500}

ForecastBody ==
    <<"{", "current", ":", "7", ",", "hourly", ":", "7", ",", "daily", ":", "7", "}">>
PlaceBody ==
    <<"{", "address", ":", "{", "city", ":", "Berlin", "}", "}">>
ListBody  == <<"[", "7", ",", "7", "]">>
HtmlBody  == <<"<html>">>
EmptyBody == <<>>

Bodies == {ForecastBody, PlaceBody, ListBody, HtmlBody, EmptyBody}

Outcomes == Statuses \X Bodies

SampleOutcomes == {<<200, ForecastBody>>}

\* the statuses of a response that requests.get follows when the response
\* names a location
RedirectStatuses == {301, 302, 303, 307, 308}

\* the redirects requests.get follows within one call
RedirectLimit == 30

\* where a redirect leads: the URL its location is resolved to, on the host
\* of the upstream or on another.  "https://api.open-meteo.com/v2/forecast"
\* and "https://b.test/f"
RedirectTargets ==
    { <<"h", "t", "t", "p", "s", ":", "/", "/", "a", "p", "i", ".", "o",
        "p", "e", "n", "-", "m", "e", "t", "e", "o", ".", "c", "o", "m",
        "/", "v", "2", "/", "f", "o", "r", "e", "c", "a", "s", "t">>,
      <<"h", "t", "t", "p", "s", ":", "/", "/", "b", ".", "t", "e", "s",
        "t", "/", "f">> }

\* a request whose upstream answers with one redirect after the other
LoopRaw ==
    [lat |-> Given(<<"5", "2", ".", "5", "2">>),
     lon |-> Given(<<"1", "3", ".", "4", "0", "5">>),
     tz |-> Absent, q |-> Absent]

-----------------------------------------------------------------------------
(* Parameter binding: lat: float, lon: float, tz: str = "auto", q: str *)

NoArgs == [lat |-> Zero(FALSE), lon |-> Zero(FALSE), tz |-> <<>>, q |-> <<>>]

\* the lat and lon texts of the requests
CoordinateTexts == {c[i].text : c \in Coordinates, i \in 1..2}

\* each of these texts with what it is validated to, worked out once
Validated == {<<t, ParseFloat(t)>> : t \in CoordinateTexts}

\* ParseFloat(text), looked up for a text that is in the table
ValidateFloat(text) ==
    IF text \in CoordinateTexts
    THEN (CHOOSE v \in Validated : v[1] = text)[2]
    ELSE ParseFloat(text)

BadFloat(p) == ~p.given \/ ~ValidateFloat(p.text).ok

\* the required parameters of a route that are missing or of the wrong type
BindErrors(route, raw) ==
    CASE route = "search" -> IF raw.q.given THEN <<>> ELSE <<"q">>
      [] OTHER ->
            (IF BadFloat(raw.lat) THEN <<"lat">> ELSE <<>>)
            \o (IF BadFloat(raw.lon) THEN <<"lon">> ELSE <<>>)

Binds(route, raw) == BindErrors(route, raw) = <<>>

\* the arguments the handler is called with
BindArgs(route, raw) ==
    [lat |-> IF route = "search" THEN Zero(FALSE) ELSE ValidateFloat(raw.lat.text).val,
     lon |-> IF route = "search" THEN Zero(FALSE) ELSE ValidateFloat(raw.lon.text).val,
     tz  |-> IF raw.tz.given THEN raw.tz.text ELSE <<"a", "u", "t", "o">>,
     q   |-> raw.q.text]

\* the answer to a request whose parameters do not bind: the handler is not
\* run.  Each entry of detail names its parameter in loc; its type and msg
\* texts are left out
Unprocessable(route, raw) ==
    [status |-> 422,
     body   |-> Obj(<< <<"detail",
                        Arr([i \in 1..Len(BindErrors(route, raw)) |->
                                Obj(<< <<"loc",
                                         Arr(<<Str(<<"query">>),
                                               Str(<<BindErrors(route, raw)[i]>>)>>)>> >>)])>> >>)]

-----------------------------------------------------------------------------
(* get_weather *)

ForecastDays == 7

\* "https://api.open-meteo.com/v1/forecast"
WeatherUrl ==
    <<"h", "t", "t", "p", "s", ":", "/", "/", "a", "p", "i", ".", "o", "p",
      "e", "n", "-", "m", "e", "t", "e", "o", ".", "c", "o", "m", "/", "v",
      "1", "/", "f", "o", "r", "e", "c", "a", "s", "t">>

CurrentFields ==
    <<
       <<"t", "e", "m", "p", "e", "r", "a", "t", "u", "r", "e", "_", "2", "m">>,
       <<"a", "p", "p", "a", "r", "e", "n", "t", "_", "t", "e", "m", "p", "e",
         "r", "a", "t", "u", "r", "e">>,
       <<"r", "e", "l", "a", "t", "i", "v", "e", "_", "h", "u", "m", "i", "d",
         "i", "t", "y", "_", "2", "m">>,
       <<"i", "s", "_", "d", "a", "y">>,
       <<"p", "r", "e", "c", "i", "p", "i", "t", "a", "t", "i", "o", "n">>,
       <<"w", "i", "n", "d", "_", "s", "p", "e", "e", "d", "_", "1", "0", "m">>,
       <<"w", "i", "n", "d", "_", "d", "i", "r", "e", "c", "t", "i", "o", "n",
         "_", "1", "0", "m">>,
       <<"w", "e", "a", "t", "h", "e", "r", "_", "c", "o", "d", "e">>,
       <<"s", "u", "r", "f", "a", "c", "e", "_", "p", "r", "e", "s", "s", "u",
         "r", "e">>,
       <<"c", "l", "o", "u", "d", "_", "c", "o", "v", "e", "r">>
    >>

HourlyFields ==
    <<
       <<"t", "e", "m", "p", "e", "r", "a", "t", "u", "r", "e", "_", "2", "m">>,
       <<"r", "e", "l", "a", "t", "i", "v", "e", "_", "h", "u", "m", "i", "d",
         "i", "t", "y", "_", "2", "m">>,
       <<"p", "r", "e", "c", "i", "p", "i", "t", "a", "t", "i", "o", "n">>,
       <<"c", "l", "o", "u", "d", "_", "c", "o", "v", "e", "r">>,
       <<"w", "i", "n", "d", "_", "s", "p", "e", "e", "d", "_", "1", "0", "m">>
    >>

DailyFields ==
    <<
       <<"t", "e", "m", "p", "e", "r", "a", "t", "u", "r", "e", "_", "2", "m",
         "_", "m", "a", "x">>,
       <<"t", "e", "m", "p", "e", "r", "a", "t", "u", "r", "e", "_", "2", "m",
         "_", "m", "i", "n">>,
       <<"u", "v", "_", "i", "n", "d", "e", "x", "_", "m", "a", "x">>,
       <<"s", "u", "n", "r", "i", "s", "e">>,
       <<"s", "u", "n", "s", "e", "t">>,
       <<"p", "r", "e", "c", "i", "p", "i", "t", "a", "t", "i", "o", "n", "_",
         "s", "u", "m">>
    >>

\* ",".join(fields)
CommaJoin(fields) == Join(fields, <<",">>)

\* the params dict, in insertion order, each value as the text str() gives
WeatherParams(lat, lon, tz) ==
    << <<<<"l", "a", "t", "i", "t", "u", "d", "e">>, FormatFloat(lat)>>,
       <<<<"l", "o", "n", "g", "i", "t", "u", "d", "e">>, FormatFloat(lon)>>,
       <<<<"c", "u", "r", "r", "e", "n", "t">>, CommaJoin(CurrentFields)>>,
       <<<<"h", "o", "u", "r", "l", "y">>, CommaJoin(HourlyFields)>>,
       <<<<"d", "a", "i", "l", "y">>, CommaJoin(DailyFields)>>,
       <<<<"f", "o", "r", "e", "c", "a", "s", "t", "_", "d", "a", "y", "s">>,
         Digits(ForecastDays)>>,
       <<<<"t", "i", "m", "e", "z", "o", "n", "e">>, tz>> >>

IsErrorServerOnly(status) == status >= 500

\* r.status_code != 200
IsError(status) == status # 200

ServerError == [status |-> 500, body |-> Str(<<"Internal Server Error">>)]

Ok(doc) == [status |-> 200, body |-> doc]

Envelope(text) == Obj(<< <<"error", True>>, <<"reason", Str(text)>> >>)

\* lines 54-58, given how the upstream call ended
GetWeather(call, status, body) ==
    IF call # "returned" THEN ServerError
    ELSE IF IsError(status) THEN Ok(Envelope(body))
    ELSE LET j == JsonLoads(body)
         IN  IF j.ok THEN Ok(j.val) ELSE ServerError

-----------------------------------------------------------------------------
(* reverse_geocode and search_places *)

SearchLimit == 5

\* {"User-Agent": "WeatherApp/1.0"}
UserAgent == << <<"User-Agent", "WeatherApp/1.0">> >>

\* "https://nominatim.openstreetmap.org/reverse"
ReverseBase ==
    <<"h", "t", "t", "p", "s", ":", "/", "/", "n", "o", "m", "i", "n", "a",
      "t", "i", "m", ".", "o", "p", "e", "n", "s", "t", "r", "e", "e", "t",
      "m", "a", "p", ".", "o", "r", "g", "/", "r", "e", "v", "e", "r", "s",
      "e">>

SearchBaseWrong ==
    <<"h", "t", "t", "p", "s", ":", "/", "/", "n", "o", "m", "i", "n", "a",
      "t", "i", "m", ".", "o", "p", "e", "n", "s", "t", "r", "e", "e", "t",
      "m", "a", "p", ".", "o", "r", "g", "/", "r", "e", "v", "e", "r", "s",
      "e">>

\* "https://nominatim.openstreetmap.org/search"
SearchBase ==
    <<"h", "t", "t", "p", "s", ":", "/", "/", "n", "o", "m", "i", "n", "a",
      "t", "i", "m", ".", "o", "p", "e", "n", "s", "t", "r", "e", "e", "t",
      "m", "a", "p", ".", "o", "r", "g", "/", "s", "e", "a", "r", "c", "h">>

\* the f-string of line 63: ...?format=json&lat={lat}&lon={lon}
ReverseUrl(lat, lon) ==
    ReverseBase
        \o <<"?", "f", "o", "r", "m", "a", "t", "=", "j", "s", "o", "n", "&",
          "l", "a", "t", "=">>
        \o FormatFloat(lat) \o <<"&", "l", "o", "n", "=">> \o FormatFloat(lon)

\* the f-string of line 70: ...?format=json&q={q}&limit=5
SearchUrl(q) ==
    SearchBase
        \o <<"?", "f", "o", "r", "m", "a", "t", "=", "j", "s", "o", "n", "&",
          "q", "=">>
        \o q \o <<"&", "l", "i", "m", "i", "t", "=">> \o Digits(SearchLimit)

ReverseGeocodeChecked(call, status, body) ==
    IF call # "returned" \/ status \notin 200..299 THEN ServerError
    ELSE LET j == JsonLoads(body)
         IN  IF j.ok THEN Ok(j.val) ELSE ServerError

\* lines 64-66, given how the upstream call ended
ReverseGeocode(call, status, body) ==
    IF call # "returned" THEN ServerError
    ELSE LET j == JsonLoads(body)
         IN  IF j.ok THEN Ok(j.val) ELSE ServerError

\* lines 71-73, given how the upstream call ended
SearchPlaces(call, status, body) ==
    IF call # "returned" THEN ServerError
    ELSE LET j == JsonLoads(body)
         IN  IF j.ok THEN Ok(j.val) ELSE ServerError

-----------------------------------------------------------------------------
(* The routes: what a handler sends and what it answers *)

\* the URL the handler's client puts on the wire
OutboundUrl(route, a) ==
    CASE route = "weather" -> WithParams(WeatherUrl, WeatherParams(a.lat, a.lon, a.tz))
      [] route = "reverse" -> ClientUrl(ReverseUrl(a.lat, a.lon))
      [] route = "search"  -> ClientUrl(SearchUrl(a.q))

\* the handler's client raises on the URL it is given and sends nothing
UrlRaises(route, a) ==
    CASE route = "weather" -> FALSE
      [] route = "reverse" -> InvalidUrl(ReverseUrl(a.lat, a.lon))
      [] route = "search"  -> InvalidUrl(SearchUrl(a.q))

OutboundHeaders(route) == IF route = "weather" THEN <<>> ELSE UserAgent

Handler(route, call, status, body) ==
    CASE route = "weather" -> GetWeather(call, status, body)
      [] route = "reverse" -> ReverseGeocode(call, status, body)
      [] route = "search"  -> SearchPlaces(call, status, body)

IsCoroutineAll(route) == TRUE

\* async def handlers run on the event loop and give it up at each await;
\* a def handler runs on a thread of the pool and keeps it through its call
IsCoroutine(route) == route \in {"reverse", "search"}

\* worker 0 is the event loop, workers 1..PoolSize the threads of the pool
WorkersFor(route) == IF IsCoroutine(route) THEN {0} ELSE 1..PoolSize

CallEndedOrTimedOut(call) == call \in {"returned", "raised", "hung"}

\* the outbound call has returned a response or raised
CallEnded(call) == call \in {"returned", "raised"}

-----------------------------------------------------------------------------
(* The CORS middleware, added to the application as a whole *)

AllowOriginsOne == {"https://a.example"}

AllowOrigins == {"*"}

AllowCredentials == TRUE

AllowMethods == {"*"}

AllowHeaders == {"*"}

AllMethods == {"DELETE", "GET", "HEAD", "OPTIONS", "PATCH", "POST", "PUT"}

Origins == {"https://a.example", "http://b.test"}

\* the Access-Control-Request-Method of a preflight: TRACE is a method that
\* is not one of AllMethods
RequestMethods == {"GET", "POST", "DELETE", "TRACE"}

\* the Access-Control-Request-Headers of a preflight, <<>> when it has none
RequestHeaders == {<<>>, <<"x-custom">>, <<"authorization", "x-custom">>}

NoCors ==
    [route |-> "none", origin |-> "", method |-> "", reqHeaders |-> <<>>,
     status |-> 0, allowOrigin |-> "", allowMethods |-> {},
     allowHeaders |-> <<>>, allowCredentials |-> FALSE]

\* the middleware's answer to OPTIONS on any route, from its configuration
PreflightResponse(route, origin, method, reqHeaders) ==
    LET allOrigins == "*" \in AllowOrigins
        allHeaders == "*" \in AllowHeaders
        methods    == IF "*" \in AllowMethods THEN AllMethods ELSE AllowMethods
        explicit   == ~allOrigins \/ AllowCredentials
        originOk   == allOrigins \/ origin \in AllowOrigins
        methodOk   == method \in methods
        headersOk  == allHeaders
                      \/ \A i \in 1..Len(reqHeaders) : reqHeaders[i] \in AllowHeaders
    IN  [route            |-> route,
         origin           |-> origin,
         method           |-> method,
         reqHeaders       |-> reqHeaders,
         status           |-> IF originOk /\ methodOk /\ headersOk THEN 200 ELSE 400,
         allowOrigin      |-> IF ~explicit THEN "*"
                              ELSE IF originOk THEN origin ELSE "",
         allowMethods     |-> methods,
         allowHeaders     |-> IF allHeaders THEN reqHeaders
                              ELSE SelectSeq(reqHeaders, LAMBDA h : h \in AllowHeaders),
         allowCredentials |-> AllowCredentials]


-----------------------------------------------------------------------------
(* The server *)

Reqs == 1..MaxReq

Idle ==
    [pc |-> "idle", route |-> "none", raw |-> NoRaw, args |-> NoArgs,
     worker |-> -1, url |-> <<>>, headers |-> <<>>, calls |-> 0,
     call |-> "none", status |-> 0, body |-> <<>>,
     resp |-> [status |-> 0, body |-> True], replies |-> 0]

Init ==
    /\ req = [r \in Reqs |-> Idle]
    /\ cors = NoCors

\* no exchange is open
Quiet == cors = NoCors /\ \A r \in Reqs : req[r].pc = "idle"

\* a thread that is inside a handler's blocking call
Occupied(w) ==
    \E r \in Reqs :
        /\ req[r].worker = w
        /\ req[r].pc = "awaiting"
        /\ ~IsCoroutine(req[r].route)

\* a GET arrives and its query parameters bind
Arrive(r, route, raw) ==
    /\ req[r].pc = "idle"
    /\ Binds(route, raw)
    /\ req' = [req EXCEPT ![r] =
                  [@ EXCEPT !.pc = "queued", !.route = route, !.raw = raw,
                            !.args = BindArgs(route, raw)]]
    /\ UNCHANGED cors

\* a GET arrives and its query parameters do not bind: no handler is run
Reject(r, route, raw) ==
    /\ req[r].pc = "idle"
    /\ ~Binds(route, raw)
    /\ req' = [req EXCEPT ![r] =
                  [@ EXCEPT !.pc = "replying", !.route = route, !.raw = raw,
                            !.resp = Unprocessable(route, raw)]]
    /\ UNCHANGED cors

\* worker w is free to take up the handler of r
CanStart(r, w) ==
    /\ req[r].pc = "queued"
    /\ w \in WorkersFor(req[r].route)
    /\ ~Occupied(w)

\* worker w runs the handler up to its outbound call: the call begins and
\* its first request is sent, or the client raises on the URL and nothing is
\* sent
Start(r, w) ==
    /\ CanStart(r, w)
    /\ req' = [req EXCEPT ![r] =
                  IF UrlRaises(req[r].route, req[r].args)
                  THEN [@ EXCEPT !.pc = "closing",
                                 !.worker = w,
                                 !.call = "raised"]
                  ELSE [@ EXCEPT !.pc = "awaiting",
                                 !.worker = w,
                                 !.url = OutboundUrl(req[r].route, req[r].args),
                                 !.headers = OutboundHeaders(req[r].route),
                                 !.calls = @ + 1,
                                 !.call = "sent"]]
    /\ UNCHANGED cors

\* the upstream answers with a status and a body
UpstreamReturn(r, status, body) ==
    /\ req[r].pc = "awaiting"
    /\ req[r].call = "sent"
    /\ req' = [req EXCEPT ![r] =
                  [@ EXCEPT !.call = "returned", !.status = status, !.body = body]]
    /\ UNCHANGED cors

\* the upstream answers a request of requests.get with a redirect that names
\* a location: the call goes on with a request to target, the URL the
\* location resolves to, or raises when it has followed RedirectLimit
\* redirects already.  client.get of httpx follows no redirect.
UpstreamRedirect(r, status, target) ==
    /\ req[r].pc = "awaiting"
    /\ req[r].call = "sent"
    /\ req[r].route = "weather"
    /\ status \in RedirectStatuses
    /\ req' = [req EXCEPT ![r] =
                  IF req[r].calls > RedirectLimit
                  THEN [@ EXCEPT !.call = "raised", !.status = status]
                  ELSE [@ EXCEPT !.calls = @ + 1, !.url = target,
                                 !.status = status]]
    /\ UNCHANGED cors

\* the outbound call raises: no connection, a transport error, a client timeout
UpstreamFail(r) ==
    /\ req[r].pc = "awaiting"
    /\ req[r].call = "sent"
    /\ req' = [req EXCEPT ![r] = [@ EXCEPT !.call = "raised"]]
    /\ UNCHANGED cors

\* the outbound call never returns
UpstreamHang(r) ==
    /\ req[r].pc = "awaiting"
    /\ req[r].call = "sent"
    /\ req' = [req EXCEPT ![r] = [@ EXCEPT !.call = "hung"]]
    /\ UNCHANGED cors

\* the event loop is free to run the coroutine of r again after its call
CanResume(r) ==
    /\ req[r].pc = "awaiting"
    /\ IsCoroutine(req[r].route)
    /\ CallEnded(req[r].call)
    /\ ~Occupied(req[r].worker)

\* a coroutine is run again after await client.get and leaves the
\* async with block, where it waits for its client to close
Resume(r) ==
    /\ CanResume(r)
    /\ req' = [req EXCEPT ![r] = [@ EXCEPT !.pc = "closing"]]
    /\ UNCHANGED cors

\* the worker of r can run its handler to the end: a coroutine's client has
\* closed, the blocking call of a thread is over
CanFinish(r) ==
    IF IsCoroutine(req[r].route)
    THEN req[r].pc = "closing" /\ ~Occupied(req[r].worker)
    ELSE req[r].pc = "awaiting" /\ CallEnded(req[r].call)

\* the handler runs from its call to its end, returning or raising, and its
\* worker is done with it: a thread of the pool is free again
Finish(r) ==
    /\ CanFinish(r)
    /\ req' = [req EXCEPT ![r] =
                  [@ EXCEPT !.pc = "replying",
                            !.worker = -1,
                            !.resp = Handler(req[r].route, req[r].call,
                                             req[r].status, req[r].body)]]
    /\ UNCHANGED cors

\* the event loop writes the response
Reply(r) ==
    /\ req[r].pc = "replying"
    /\ req' = [req EXCEPT ![r] = [@ EXCEPT !.pc = "done", !.replies = @ + 1]]
    /\ UNCHANGED cors

\* the exchange is over and its slot is free again
Close(r) ==
    /\ req[r].pc = "done"
    /\ req' = [req EXCEPT ![r] = Idle]
    /\ UNCHANGED cors

\* an OPTIONS preflight is answered by the middleware
Preflight(route, origin, method, reqHeaders) ==
    /\ cors = NoCors
    /\ cors' = PreflightResponse(route, origin, method, reqHeaders)
    /\ UNCHANGED req

ClosePreflight ==
    /\ cors # NoCors
    /\ cors' = NoCors
    /\ UNCHANGED req

\* a client that sends one request at a time, with every input; the upstream
\* redirects the call of one of the requests, any number of times
Next ==
    \/ Quiet /\ \E r \in Reqs, route \in Routes :
                   \E raw \in RawOf(route) : Arrive(r, route, raw)
    \/ Quiet /\ \E r \in Reqs, route \in Routes :
                   \E raw \in RawOf(route) : Reject(r, route, raw)
    \/ \E r \in Reqs : \E w \in 0..PoolSize : Start(r, w)
    \/ \E r \in Reqs : \E o \in Outcomes : UpstreamReturn(r, o[1], o[2])
    \/ \E r \in Reqs, s \in RedirectStatuses, t \in RedirectTargets :
          req[r].raw = LoopRaw /\ UpstreamRedirect(r, s, t)
    \/ \E r \in Reqs : UpstreamFail(r)
    \/ \E r \in Reqs : UpstreamHang(r)
    \/ \E r \in Reqs : Resume(r)
    \/ \E r \in Reqs : Finish(r)
    \/ \E r \in Reqs : Reply(r)
    \/ \E r \in Reqs : Close(r)
    \/ Quiet /\ \E route \in Routes, origin \in Origins, method \in RequestMethods :
                   \E h \in RequestHeaders : Preflight(route, origin, method, h)
    \/ ClosePreflight

Spec == Init /\ [][Next]_vars

\* clients that send requests at the same time; the upstream redirects none
ConcNext ==
    \/ \E r \in Reqs, route \in Routes :
          \E raw \in SampleRaw(route) : Arrive(r, route, raw)
    \/ \E r \in Reqs, route \in Routes :
          \E raw \in SampleRaw(route) : Reject(r, route, raw)
    \/ \E r \in Reqs : \E w \in 0..PoolSize : Start(r, w)
    \/ \E r \in Reqs : \E o \in SampleOutcomes : UpstreamReturn(r, o[1], o[2])
    \/ \E r \in Reqs : UpstreamFail(r)
    \/ \E r \in Reqs : UpstreamHang(r)
    \/ \E r \in Reqs : Resume(r)
    \/ \E r \in Reqs : Finish(r)
    \/ \E r \in Reqs : Reply(r)
    \/ \E r \in Reqs : Close(r)

ConcSpec == Init /\ [][ConcNext]_vars

\* the steps the server takes for r on its own, once the call of r is over
Progress(r) == Resume(r) \/ Finish(r) \/ Reply(r)

\* a handler whose call has ended is run again by its worker, and the event
\* loop gets to write a response that is ready
FairConcSpec == ConcSpec /\ \A r \in Reqs : WF_vars(Progress(r))

-----------------------------------------------------------------------------
(* What the properties are stated with *)

\* the document each body text of Bodies stands for, written out by hand:
\* <<document>> for a JSON text, <<>> for a text that is not JSON
Decoded(b) ==
    CASE b = ForecastBody ->
            << Obj(<< <<"current", Num("7")>>, <<"hourly", Num("7")>>,
                      <<"daily", Num("7")>> >>) >>
      [] b = PlaceBody ->
            << Obj(<< <<"address", Obj(<< <<"city", Str(<<"Berlin">>)>> >>)>> >>) >>
      [] b = ListBody -> << Arr(<<Num("7"), Num("7")>>) >>
      [] OTHER -> <<>>

Success(status) == status \in 200..299

\* the handler of r has run and its response is written
Done(r, route) ==
    req[r].pc = "done" /\ req[r].route = route /\ req[r].call # "none"

\* the handler of r has just issued its outbound call, whose URL and headers
\* stay as they are from then on
Called(r, route) ==
    req[r].calls = 1 /\ req[r].route = route /\ req[r].call = "sent"

IsEnvelope(d) == d.t = "obj" /\ "error" \in Keys(d) /\ Get(d, "error") = True

InternalError == [status |-> 500, body |-> Str(<<"Internal Server Error">>)]

\* {"User-Agent": "WeatherApp/1.0"}
ExpectedHeaders == << <<"User-Agent", "WeatherApp/1.0">> >>

\* the number each lat and lon text of Coordinates that is a float stands
\* for, as it is written, written out by hand
CallerNumber(text) ==
    CASE text = <<"5", "2", ".", "5", "2">> ->
            [kind |-> "num", neg |-> FALSE,
             digits |-> <<"5", "2", "5", "2">>,
             exp |-> 2]
      [] text = <<"1", "3", ".", "4", "0", "5">> ->
            [kind |-> "num", neg |-> FALSE,
             digits |-> <<"1", "3", "4", "0", "5">>,
             exp |-> 2]
      [] text = <<"-", "9", "0", ".", "0">> ->
            [kind |-> "num", neg |-> TRUE,
             digits |-> <<"9">>,
             exp |-> 2]
      [] text = <<"-", "0", ".", "5">> ->
            [kind |-> "num", neg |-> TRUE,
             digits |-> <<"5">>,
             exp |-> 0]
      [] text = <<"1", "e", "1">> ->
            [kind |-> "num", neg |-> FALSE,
             digits |-> <<"1">>,
             exp |-> 2]
      [] text = <<" ", "1", ".", "5">> ->
            [kind |-> "num", neg |-> FALSE,
             digits |-> <<"1", "5">>,
             exp |-> 1]
      [] text = <<"+", "1", ".", "5">> ->
            [kind |-> "num", neg |-> FALSE,
             digits |-> <<"1", "5">>,
             exp |-> 1]
      [] text = <<"1", "_", "0">> ->
            [kind |-> "num", neg |-> FALSE,
             digits |-> <<"1">>,
             exp |-> 2]
      [] text = <<"-", "0">> ->
            [kind |-> "num", neg |-> TRUE, digits |-> <<>>, exp |-> 0]
      [] text = <<"0", ".", "0", "5">> ->
            [kind |-> "num", neg |-> FALSE,
             digits |-> <<"5">>,
             exp |-> -1]
      [] text = <<"i", "n", "f">> ->
            [kind |-> "inf", neg |-> FALSE, digits |-> <<>>, exp |-> 0]
      [] text = <<"n", "a", "n">> ->
            [kind |-> "nan", neg |-> FALSE, digits |-> <<>>, exp |-> 0]
      [] text = <<"9", "9", "9", "9", "9", "9", "9", "9", "9", "9",
                      "9", "9", "9", "9", "9", "9">> ->
            [kind |-> "num", neg |-> FALSE,
             digits |-> <<"9", "9", "9", "9", "9", "9", "9", "9", "9", "9",
                          "9", "9", "9", "9", "9", "9">>,
             exp |-> 16]
      [] text = <<"9", "0", "0", "7", "1", "9", "9", "2", "5", "4",
                      "7", "4", "0", "9", "9", "3">> ->
            [kind |-> "num", neg |-> FALSE,
             digits |-> <<"9", "0", "0", "7", "1", "9", "9", "2", "5", "4",
                          "7", "4", "0", "9", "9", "3">>,
             exp |-> 16]
      [] text = <<"1", ".", "7", "9", "7", "6", "9", "3", "1", "3",
                      "4", "8", "6", "2", "3", "1", "6", "e", "3", "0", "8">> ->
            [kind |-> "num", neg |-> FALSE,
             digits |-> <<"1", "7", "9", "7", "6", "9", "3", "1", "3", "4",
                          "8", "6", "2", "3", "1", "6">>,
             exp |-> 309]
      [] text = <<"2", "e", "-", "3", "2", "4">> ->
            [kind |-> "num", neg |-> FALSE,
             digits |-> <<"2">>,
             exp |-> -323]
      [] text = <<"1", "_", ".", "5">> ->
            [kind |-> "num", neg |-> FALSE,
             digits |-> <<"1", "5">>,
             exp |-> 1]
      [] text = <<"1", "e", "_", "1">> ->
            [kind |-> "num", neg |-> FALSE,
             digits |-> <<"1">>,
             exp |-> 2]
      [] text = <<"-", "_", "1">> ->
            [kind |-> "num", neg |-> TRUE,
             digits |-> <<"1">>,
             exp |-> 1]
      [] text = <<Chr(160), "1", ".", "5", Chr(160)>> ->
            [kind |-> "num", neg |-> FALSE,
             digits |-> <<"1", "5">>,
             exp |-> 1]

\* the float nearest to that number, in its shortest decimal form, written
\* out by hand
CallerFloat(text) ==
    CASE text = <<"5", "2", ".", "5", "2">> ->
            [kind |-> "num", neg |-> FALSE,
             digits |-> <<"5", "2", "5", "2">>,
             exp |-> 2]
      [] text = <<"1", "3", ".", "4", "0", "5">> ->
            [kind |-> "num", neg |-> FALSE,
             digits |-> <<"1", "3", "4", "0", "5">>,
             exp |-> 2]
      [] text = <<"-", "9", "0", ".", "0">> ->
            [kind |-> "num", neg |-> TRUE,
             digits |-> <<"9">>,
             exp |-> 2]
      [] text = <<"-", "0", ".", "5">> ->
            [kind |-> "num", neg |-> TRUE,
             digits |-> <<"5">>,
             exp |-> 0]
      [] text = <<"1", "e", "1">> ->
            [kind |-> "num", neg |-> FALSE,
             digits |-> <<"1">>,
             exp |-> 2]
      [] text = <<" ", "1", ".", "5">> ->
            [kind |-> "num", neg |-> FALSE,
             digits |-> <<"1", "5">>,
             exp |-> 1]
      [] text = <<"+", "1", ".", "5">> ->
            [kind |-> "num", neg |-> FALSE,
             digits |-> <<"1", "5">>,
             exp |-> 1]
      [] text = <<"1", "_", "0">> ->
            [kind |-> "num", neg |-> FALSE,
             digits |-> <<"1">>,
             exp |-> 2]
      [] text = <<"-", "0">> ->
            [kind |-> "num", neg |-> TRUE, digits |-> <<>>, exp |-> 0]
      [] text = <<"0", ".", "0", "5">> ->
            [kind |-> "num", neg |-> FALSE,
             digits |-> <<"5">>,
             exp |-> -1]
      [] text = <<"i", "n", "f">> ->
            [kind |-> "inf", neg |-> FALSE, digits |-> <<>>, exp |-> 0]
      [] text = <<"n", "a", "n">> ->
            [kind |-> "nan", neg |-> FALSE, digits |-> <<>>, exp |-> 0]
      [] text = <<"9", "9", "9", "9", "9", "9", "9", "9", "9", "9",
                      "9", "9", "9", "9", "9", "9">> ->
            [kind |-> "num", neg |-> FALSE,
             digits |-> <<"1">>,
             exp |-> 17]
      [] text = <<"9", "0", "0", "7", "1", "9", "9", "2", "5", "4",
                      "7", "4", "0", "9", "9", "3">> ->
            [kind |-> "num", neg |-> FALSE,
             digits |-> <<"9", "0", "0", "7", "1", "9", "9", "2", "5", "4",
                          "7", "4", "0", "9", "9", "2">>,
             exp |-> 16]
      [] text = <<"1", ".", "7", "9", "7", "6", "9", "3", "1", "3",
                      "4", "8", "6", "2", "3", "1", "6", "e", "3", "0", "8">> ->
            [kind |-> "inf", neg |-> FALSE, digits |-> <<>>, exp |-> 0]
      [] text = <<"2", "e", "-", "3", "2", "4">> ->
            [kind |-> "num", neg |-> FALSE, digits |-> <<>>, exp |-> 0]
      [] text = <<"1", "_", ".", "5">> ->
            [kind |-> "num", neg |-> FALSE,
             digits |-> <<"1", "5">>,
             exp |-> 1]
      [] text = <<"1", "e", "_", "1">> ->
            [kind |-> "num", neg |-> FALSE,
             digits |-> <<"1">>,
             exp |-> 2]
      [] text = <<"-", "_", "1">> ->
            [kind |-> "num", neg |-> TRUE,
             digits |-> <<"1">>,
             exp |-> 1]
      [] text = <<Chr(160), "1", ".", "5", Chr(160)>> ->
            [kind |-> "num", neg |-> FALSE,
             digits |-> <<"1", "5">>,
             exp |-> 1]

\* the lat and lon texts of Coordinates that are no floats, written out by hand
NotFloats ==
    {<<"x">>, <<" ", "1", "_", "0">>, <<"1", "_", "_", "0">>}

\* the text holds a character that no URL may hold
HasControl(text) == \E i \in 1..Len(text) : text[i] \in Controls

-----------------------------------------------------------------------------
(* Properties of the responses *)

\* C1: when the forecast upstream answers /weather with a non-success status
\* and body text B, the relay answers 200 with {error: true, reason: B}.
C1_ErrorEnvelope ==
    \A r \in Reqs :
        (Done(r, "weather") /\ req[r].call = "returned" /\ ~Success(req[r].status))
        => req[r].resp =
              [status |-> 200,
               body |-> Obj(<< <<"error", True>>, <<"reason", Str(req[r].body)>> >>)]

C1_Witness ==
    \E r \in Reqs :
        /\ Done(r, "weather")
        /\ req[r].call = "returned"
        /\ req[r].status = 500
        /\ req[r].body = HtmlBody
        /\ req[r].resp.status = 200

\* C2: for valid lat and lon, whatever the upstream outcome, the answer of
\* /weather is a 200 whose document has the keys current, hourly and daily,
\* or is the error envelope.
C2_OnlyTwoShapes ==
    \A r \in Reqs :
        Done(r, "weather")
        => /\ req[r].resp.status = 200
           /\ \/ {"current", "hourly", "daily"} \subseteq Keys(req[r].resp.body)
              \/ IsEnvelope(req[r].resp.body)

\* C3 as stated: on /api/reverse and /api/search a raised call, a body that is
\* not JSON and a non-success status all end in the generic server error.
C3_EveryFailureIs500 ==
    \A r \in Reqs :
        ((Done(r, "reverse") \/ Done(r, "search"))
            /\ (\/ req[r].call = "raised"
                \/ Decoded(req[r].body) = <<>>
                \/ ~Success(req[r].status)))
        => req[r].resp = InternalError

\* C3 as amended: on /api/reverse and /api/search a raised call and a body
\* that is not JSON end in the generic server error, never in an envelope; a
\* returned JSON document is answered 200 unchanged, whatever the status.
C3_FailureOrRelay ==
    \A r \in Reqs :
        (Done(r, "reverse") \/ Done(r, "search"))
        => IF req[r].call = "raised" \/ Decoded(req[r].body) = <<>>
           THEN req[r].resp = InternalError
           ELSE req[r].resp = [status |-> 200, body |-> Decoded(req[r].body)[1]]

C3_Witness ==
    \E r \in Reqs :
        /\ Done(r, "reverse")
        /\ req[r].call = "returned"
        /\ req[r].status = 404
        /\ req[r].body = PlaceBody
        /\ req[r].resp.status = 200

\* C4: on every route, a success status with a JSON document D is answered
\* with exactly D.
C4_SuccessIsRelayed ==
    \A r \in Reqs :
        (req[r].pc = "done" /\ req[r].call = "returned"
            /\ Success(req[r].status) /\ Decoded(req[r].body) # <<>>)
        => req[r].resp = [status |-> 200, body |-> Decoded(req[r].body)[1]]

-----------------------------------------------------------------------------
(* Properties of the outbound requests *)

\* C5: the search upstream receives format=json, the whole of q as the one
\* parameter q, limit=5 and the User-Agent header, for every q.
C5_SearchRequest ==
    \A r \in Reqs :
        Called(r, "search")
        => /\ ParseUrl(req[r].url) =
                 [base   |-> <<"h", "t", "t", "p", "s", ":", "/", "/", "n", "o",
                        "m", "i", "n", "a", "t", "i", "m", ".", "o", "p",
                        "e", "n", "s", "t", "r", "e", "e", "t", "m", "a",
                        "p", ".", "o", "r", "g", "/", "s", "e", "a", "r",
                        "c", "h">>,
                  params |-> << <<<<"f", "o", "r", "m", "a", "t">>, <<"j", "s", "o", "n">>>>,
                                <<<<"q">>, req[r].raw.q.text>>,
                                <<<<"l", "i", "m", "i", "t">>, <<"5">>>> >>]
           /\ req[r].headers = ExpectedHeaders

\* the outbound request of r goes to the forecast upstream with a latitude
\* and a longitude that read as the numbers lat and lon, the caller's tz or
\* "auto", forecast_days=7 and the three fixed field lists, and nothing else
WeatherRequestOf(r, lat, lon) ==
    LET u == ParseUrl(req[r].url)
        p == u.params
        a == req[r].raw
    IN  /\ u.base =
              <<"h", "t", "t", "p", "s", ":", "/", "/", "a", "p",
                        "i", ".", "o", "p", "e", "n", "-", "m", "e", "t",
                        "e", "o", ".", "c", "o", "m", "/", "v", "1", "/",
                        "f", "o", "r", "e", "c", "a", "s", "t">>
        /\ Len(p) = 7
        /\ Len(ValuesOf(p, <<"l", "a", "t", "i", "t", "u", "d", "e">>)) = 1
        /\ ParseDecimal(ValuesOf(p, <<"l", "a", "t", "i", "t", "u", "d", "e">>)[1]) =
              [ok |-> TRUE, val |-> lat]
        /\ Len(ValuesOf(p, <<"l", "o", "n", "g", "i", "t", "u", "d", "e">>)) = 1
        /\ ParseDecimal(ValuesOf(p, <<"l", "o", "n", "g", "i", "t", "u", "d", "e">>)[1]) =
              [ok |-> TRUE, val |-> lon]
        /\ ValuesOf(p, <<"t", "i", "m", "e", "z", "o", "n", "e">>) =
              <<IF a.tz.given THEN a.tz.text ELSE <<"a", "u", "t", "o">>>>
        /\ ValuesOf(p, <<"f", "o", "r", "e", "c", "a", "s", "t", "_", "d", "a", "y", "s">>)
              = << <<"7">> >>
        \* temperature_2m,apparent_temperature,relative_humidity_2m,is_day,
        \* precipitation,wind_speed_10m,wind_direction_10m,weather_code,
        \* surface_pressure,cloud_cover
        /\ ValuesOf(p, <<"c", "u", "r", "r", "e", "n", "t">>) =
              << <<"t", "e", "m", "p", "e", "r", "a", "t", "u", "r",
                          "e", "_", "2", "m", ",", "a", "p", "p", "a", "r",
                          "e", "n", "t", "_", "t", "e", "m", "p", "e", "r",
                          "a", "t", "u", "r", "e", ",", "r", "e", "l", "a",
                          "t", "i", "v", "e", "_", "h", "u", "m", "i", "d",
                          "i", "t", "y", "_", "2", "m", ",", "i", "s", "_",
                          "d", "a", "y", ",", "p", "r", "e", "c", "i", "p",
                          "i", "t", "a", "t", "i", "o", "n", ",", "w", "i",
                          "n", "d", "_", "s", "p", "e", "e", "d", "_", "1",
                          "0", "m", ",", "w", "i", "n", "d", "_", "d", "i",
                          "r", "e", "c", "t", "i", "o", "n", "_", "1", "0",
                          "m", ",", "w", "e", "a", "t", "h", "e", "r", "_",
                          "c", "o", "d", "e", ",", "s", "u", "r", "f", "a",
                          "c", "e", "_", "p", "r", "e", "s", "s", "u", "r",
                          "e", ",", "c", "l", "o", "u", "d", "_", "c", "o",
                          "v", "e", "r">> >>
        \* temperature_2m,relative_humidity_2m,precipitation,cloud_cover,
        \* wind_speed_10m
        /\ ValuesOf(p, <<"h", "o", "u", "r", "l", "y">>) =
              << <<"t", "e", "m", "p", "e", "r", "a", "t", "u", "r",
                          "e", "_", "2", "m", ",", "r", "e", "l", "a", "t",
                          "i", "v", "e", "_", "h", "u", "m", "i", "d", "i",
                          "t", "y", "_", "2", "m", ",", "p", "r", "e", "c",
                          "i", "p", "i", "t", "a", "t", "i", "o", "n", ",",
                          "c", "l", "o", "u", "d", "_", "c", "o", "v", "e",
                          "r", ",", "w", "i", "n", "d", "_", "s", "p", "e",
                          "e", "d", "_", "1", "0", "m">> >>
        \* temperature_2m_max,temperature_2m_min,uv_index_max,sunrise,sunset,
        \* precipitation_sum
        /\ ValuesOf(p, <<"d", "a", "i", "l", "y">>) =
              << <<"t", "e", "m", "p", "e", "r", "a", "t", "u", "r",
                          "e", "_", "2", "m", "_", "m", "a", "x", ",", "t",
                          "e", "m", "p", "e", "r", "a", "t", "u", "r", "e",
                          "_", "2", "m", "_", "m", "i", "n", ",", "u", "v",
                          "_", "i", "n", "d", "e", "x", "_", "m", "a", "x",
                          ",", "s", "u", "n", "r", "i", "s", "e", ",", "s",
                          "u", "n", "s", "e", "t", ",", "p", "r", "e", "c",
                          "i", "p", "i", "t", "a", "t", "i", "o", "n", "_",
                          "s", "u", "m">> >>

\* C6 as stated: the forecast upstream receives a latitude and a longitude
\* that are the numbers the caller gave as lat and lon, the caller's tz or
\* "auto", forecast_days=7 and the three fixed field lists, and nothing else,
\* for every input.
C6_CallersNumbers ==
    \A r \in Reqs :
        Called(r, "weather")
        => WeatherRequestOf(r, CallerNumber(req[r].raw.lat.text),
                               CallerNumber(req[r].raw.lon.text))

\* C6 as amended: the forecast upstream receives as latitude and longitude
\* the floats nearest to the numbers the caller gave as lat and lon, each in
\* its shortest decimal form, the caller's tz or "auto", forecast_days=7 and
\* the three fixed field lists, and nothing else, for every input.
C6_WeatherRequest ==
    \A r \in Reqs :
        Called(r, "weather")
        => WeatherRequestOf(r, CallerFloat(req[r].raw.lat.text),
                               CallerFloat(req[r].raw.lon.text))

\* a lat of sixteen digits, sent as "1e+16", with a tz that is an escape
\* itself, "%26"
C6_Witness ==
    \E r \in Reqs :
        /\ Called(r, "weather")
        /\ req[r].raw.tz = Given(<<"%", "2", "6">>)
        /\ req[r].raw.lat.text =
              <<"9", "9", "9", "9", "9", "9", "9", "9", "9", "9", "9", "9",
                "9", "9", "9", "9">>
        /\ ValuesOf(ParseUrl(req[r].url).params, <<"l", "a", "t", "i", "t", "u", "d", "e">>) =
              << <<"1", "e", "+", "1", "6">> >>

\* C7 as stated: a preflight on any route, from any origin, for any method,
\* is answered 200 with that origin allowed, the method allowed, the
\* requested headers allowed and credentials allowed.
C7_Preflight ==
    cors # NoCors
    => /\ cors.status = 200
       /\ cors.allowOrigin = cors.origin
       /\ cors.method \in cors.allowMethods
       /\ cors.allowHeaders = cors.reqHeaders
       /\ cors.allowCredentials

\* C7 as amended: a preflight on any route, from any origin, is answered with
\* that origin allowed, the methods DELETE, GET, HEAD, OPTIONS, PATCH, POST
\* and PUT allowed, the requested headers allowed and credentials allowed;
\* it is answered 200 when it asks for one of these methods and 400 when it
\* asks for another.
C7_SevenMethods ==
    cors # NoCors
    => /\ cors.allowOrigin = cors.origin
       /\ cors.allowMethods =
             {"DELETE", "GET", "HEAD", "OPTIONS", "PATCH", "POST", "PUT"}
       /\ cors.allowHeaders = cors.reqHeaders
       /\ cors.allowCredentials
       /\ cors.status =
             IF cors.method \in {"DELETE", "GET", "HEAD", "OPTIONS", "PATCH",
                                 "POST", "PUT"}
             THEN 200 ELSE 400

C7_Witness ==
    /\ cors.route = "search"
    /\ cors.origin = "http://b.test"
    /\ cors.method = "TRACE"
    /\ cors.reqHeaders = <<"authorization", "x-custom">>
    /\ cors.status = 400
    /\ cors.allowOrigin = "http://b.test"

-----------------------------------------------------------------------------
(* Properties of the scheduling *)

\* the worker of r is running or holding r's handler
Serving(r) == req[r].pc \in {"awaiting", "closing"}

\* C8: a worker whose request waits for its upstream serves other requests
\* exactly when that request is /api/reverse or /api/search; a worker in the
\* outbound call of /weather serves no other request until the call is over.
C8_Interleaving ==
    \A r1 \in Reqs :
        req[r1].pc = "awaiting"
        => \A r2 \in Reqs \ {r1} :
              LET w == req[r1].worker
              IN  IF req[r1].route = "weather"
                  THEN /\ ~(Serving(r2) /\ req[r2].worker = w)
                       /\ ~CanStart(r2, w)
                  ELSE /\ (req[r2].pc = "queued"
                              /\ req[r2].route \in {"reverse", "search"})
                          => CanStart(r2, w)
                       /\ (req[r2].pc = "awaiting" /\ req[r2].worker = w
                              /\ req[r2].call \in {"returned", "raised"})
                          => CanResume(r2)
                       /\ (req[r2].pc = "closing" /\ req[r2].worker = w)
                          => CanFinish(r2)

C8_Witness ==
    \E r1 \in Reqs, r2 \in Reqs :
        /\ req[r1].route = "reverse" /\ req[r1].pc = "awaiting"
        /\ req[r1].call = "sent"
        /\ req[r2].route = "search" /\ req[r2].pc = "awaiting"
        /\ req[r2].worker = req[r1].worker

\* what C9 says of one request, r: at most one call, to the upstream of its
\* route, and one response, written after the call has returned or raised
OneCallOneReply(r) ==
    /\ req[r].calls <= 1
    /\ req[r].replies <= 1
    /\ req[r].pc \in {"idle", "queued"} => req[r].calls = 0
    /\ req[r].calls = 1
          => UrlBase(req[r].url) =
                CASE req[r].route = "weather" ->
                        <<"h", "t", "t", "p", "s", ":", "/", "/", "a", "p",
                        "i", ".", "o", "p", "e", "n", "-", "m", "e", "t",
                        "e", "o", ".", "c", "o", "m", "/", "v", "1", "/",
                        "f", "o", "r", "e", "c", "a", "s", "t">>
                  [] req[r].route = "reverse" ->
                        <<"h", "t", "t", "p", "s", ":", "/", "/", "n", "o",
                        "m", "i", "n", "a", "t", "i", "m", ".", "o", "p",
                        "e", "n", "s", "t", "r", "e", "e", "t", "m", "a",
                        "p", ".", "o", "r", "g", "/", "r", "e", "v", "e",
                        "r", "s", "e">>
                  [] req[r].route = "search" ->
                        <<"h", "t", "t", "p", "s", ":", "/", "/", "n", "o",
                        "m", "i", "n", "a", "t", "i", "m", ".", "o", "p",
                        "e", "n", "s", "t", "r", "e", "e", "t", "m", "a",
                        "p", ".", "o", "r", "g", "/", "s", "e", "a", "r",
                        "c", "h">>
    /\ req[r].pc # "done" => req[r].replies = 0
    /\ req[r].pc = "done" => req[r].replies = 1

\* C9 as stated: every incoming request makes exactly one outbound call, to
\* the upstream of its route, and gets exactly one response, after the call.
C9_EveryRequestCallsOnce ==
    \A r \in Reqs :
        /\ OneCallOneReply(r)
        /\ req[r].pc \in {"awaiting", "closing", "replying", "done"}
              => req[r].calls = 1
        /\ req[r].pc \in {"replying", "done"}
              => req[r].call \in {"returned", "raised"}

\* a required parameter of r is missing or of the wrong type
Unbound(r) ==
    \/ req[r].route = "search" /\ ~req[r].raw.q.given
    \/ /\ req[r].route \in {"weather", "reverse"}
       /\ \E p \in {req[r].raw.lat, req[r].raw.lon} :
             ~p.given \/ p.text \in NotFloats

\* the fixed upstream of a route
FixedUpstream(route) ==
    CASE route = "weather" ->
            <<"h", "t", "t", "p", "s", ":", "/", "/", "a", "p",
                        "i", ".", "o", "p", "e", "n", "-", "m", "e", "t",
                        "e", "o", ".", "c", "o", "m", "/", "v", "1", "/",
                        "f", "o", "r", "e", "c", "a", "s", "t">>
      [] route = "reverse" ->
            <<"h", "t", "t", "p", "s", ":", "/", "/", "n", "o",
                        "m", "i", "n", "a", "t", "i", "m", ".", "o", "p",
                        "e", "n", "s", "t", "r", "e", "e", "t", "m", "a",
                        "p", ".", "o", "r", "g", "/", "r", "e", "v", "e",
                        "r", "s", "e">>
      [] route = "search" ->
            <<"h", "t", "t", "p", "s", ":", "/", "/", "n", "o",
                        "m", "i", "n", "a", "t", "i", "m", ".", "o", "p",
                        "e", "n", "s", "t", "r", "e", "e", "t", "m", "a",
                        "p", ".", "o", "r", "g", "/", "s", "e", "a", "r",
                        "c", "h">>

\* what C9 as amended says of the outbound requests and the response of r
CallsAndReply(r) ==
    /\ req[r].replies <= 1
    /\ req[r].pc # "done" => req[r].replies = 0
    /\ req[r].pc = "done" => req[r].replies = 1
    /\ req[r].pc \in {"idle", "queued"} => req[r].calls = 0
    /\ req[r].pc = "awaiting" => req[r].calls >= 1
    /\ req[r].calls = 1 => UrlBase(req[r].url) = FixedUpstream(req[r].route)
    /\ req[r].calls > 1
          => /\ req[r].route = "weather"
             /\ req[r].calls <= 31
             /\ req[r].url \in RedirectTargets
    /\ req[r].pc \in {"closing", "replying", "done"}
          => IF Unbound(r)
             THEN req[r].calls = 0 /\ req[r].resp.status = 422
             ELSE IF req[r].route = "search" /\ HasControl(req[r].raw.q.text)
             THEN /\ req[r].calls = 0
                  /\ req[r].pc # "closing" => req[r].resp = InternalError
             ELSE /\ req[r].calls >= 1
                  /\ req[r].call \in {"returned", "raised"}
                  /\ req[r].resp.status # 422

\* a request is sent for r after the first only in answer to a redirect of
\* the forecast upstream, one request a redirect, to where the redirect leads
FurtherOnRedirect(r) ==
    (req'[r].calls # req[r].calls /\ req'[r].pc # "idle")
    => /\ req'[r].calls = req[r].calls + 1
       /\ req[r].calls >= 1
             => /\ req[r].route = "weather"
                /\ req[r].call = "sent"
                /\ req'[r].status \in {301, 302, 303, 307, 308}
                /\ req'[r].url \in RedirectTargets

\* C9 as amended: a request whose required parameters are all given and of
\* the right type, and whose q holds no control character, makes one outbound
\* call, whose first request goes to the upstream of its route, and gets
\* exactly one response, after the call has returned or raised; the call of
\* /api/reverse and of /api/search is that one request, the call of /weather
\* sends one more request for every redirect the upstream answers with, to
\* where the redirect leads, 31 requests at most.  A request with a parameter
\* missing or of the wrong type is answered 422, and one whose q holds a
\* control character 500, without an outbound request.
C9_OneCallOneReply ==
    /\ [](\A r \in Reqs : CallsAndReply(r))
    /\ [][\A r \in Reqs : FurtherOnRedirect(r)]_vars

\* /weather answered after its upstream redirected it to another host
C9_Witness ==
    \E r \in Reqs :
        /\ Done(r, "weather")
        /\ req[r].calls = 2
        /\ req[r].url = <<"h", "t", "t", "p", "s", ":", "/", "/", "b", ".", "t",
                          "e", "s", "t", "/", "f">>
        /\ req[r].call = "returned"
        /\ req[r].status = 200
        /\ req[r].replies = 1

\* C10: a request whose outbound call never returns stays pending and is
\* never answered; a request whose call returns or raises is answered.
C10_NoTimeout ==
    /\ [](\A r \in Reqs :
            req[r].call = "hung" => req[r].pc = "awaiting" /\ req[r].replies = 0)
    /\ [][\A r \in Reqs : req[r].call = "hung" => req'[r] = req[r]]_vars
    /\ \A r \in Reqs :
          (req[r].call \in {"returned", "raised"}) ~> (req[r].replies = 1)

C10_Witness ==
    \E r \in Reqs, r2 \in Reqs :
        /\ req[r].call = "hung"
        /\ req[r].route = "reverse"
        /\ Done(r2, "weather")

====
